---- MODULE Spec2Model ----
(***************************************************************************)
(* TotalMixController (src/totalmix_volume_controller.py): the controller  *)
(* state, the operations bound to the hotkeys, the OSC feedback handler    *)
(* run by the listener thread, and the polling loop of main().             *)
(*                                                                         *)
(* Volumes and OSC float payloads are fixed-point numbers in units of      *)
(* 1/10000 of full scale: 0.5 is 5000, 0.7197 is 7197, 1.0 is 10000.       *)
(* Arithmetic is exact; binary floating-point rounding is not modelled.    *)
(*                                                                         *)
(* sent holds the client.send_message calls made by the last operation,    *)
(* in call order; raised tells whether that operation ended by raising     *)
(* (a send_message call failing with OSError, or float() rejecting a       *)
(* feedback argument).  When a send_message call fails, it is the last     *)
(* element of sent.                                                        *)
(*                                                                         *)
(* Spec runs every operation as one step.  SpecFair adds the scheduling of *)
(* the main thread.  SpecRace runs a volume change statement by statement  *)
(* against the handler of the listener thread.  SpecCodec is the OSC       *)
(* message codec the controller sends and receives through.                *)
(***************************************************************************)
EXTENDS Integers, Sequences, FiniteSets, TLC

VARIABLES
    step,               \* self.step
    faders_arg,         \* the faders argument of __init__ (<<>>: None or [])
    faders,             \* self.faders
    volume_addresses,   \* self.volume_addresses
    listening,          \* the listener thread bound receive_port and serves
    current_volume,     \* self.current_volume
    is_muted,           \* self.is_muted
    running,            \* self.running
    received_feedback,  \* self.received_feedback
    pc,                 \* main(): "polling" in the while loop, "exited" after it
    notified,           \* number of "connection verified" lines printed
    sent,               \* send_message calls of the last operation
    raised,             \* the last operation raised
    lastOp,             \* the last operation invoked
    repeated,           \* lastOp is also the operation invoked before it
    mutedBefore,        \* is_muted before the last operation
    cmd_pc,             \* hotkey thread, statement by statement: "idle",
                        \* "called" (in set_volume, before line 129),
                        \* "assigned" (after line 129, before the sends)
    cmd_value,          \* the argument of the set_volume call in progress
    fb_since,           \* the last level the handler stored since the last
                        \* command operation was invoked
    message,            \* codec: the message handed to send_message
    wire,               \* codec: the datagram, a sequence of bytes
    decoded             \* codec: what the receiver made of the datagram

config == <<step, faders_arg, faders, volume_addresses, listening>>
state == <<current_volume, is_muted, running, received_feedback>>
trace == <<sent, raised, lastOp, repeated, mutedBefore>>
race == <<cmd_pc, cmd_value, fb_since>>
codec == <<message, wire, decoded>>
vars == <<config, state, pc, notified, trace, race, codec>>

-----------------------------------------------------------------------------
(* Bounds of the model *)

\* inputs reach this far below MIN_VOLUME and above MAX_VOLUME
Overshoot == 5000
\* feedback is generated for /1/volume1 .. /1/volume<MaxFeedbackFader>
MaxFeedbackFader == 3

-----------------------------------------------------------------------------
(* Class constants *)

BUS_OUTPUT == "/1/busOutput"
MASTER_VOLUME == "/1/mastervolume"
MASTER_MUTE == "/1/mainMute"
MAIN_DIM == "/1/mainDim"

UNITY_GAIN == 7197
MIN_VOLUME == 0
MAX_VOLUME == 10000

\* the 1.0 sent to BUS_OUTPUT
BUS_SELECT == 10000
\* 1.0 if self.is_muted else 0.0
MUTE_ON == 10000
MUTE_OFF == 0

\* __init__ defaults
DEFAULT_STEP == 200
INITIAL_VOLUME == 5000
DEFAULT_FADERS == <<1, 2, 3, 4, 5, 6>>

-----------------------------------------------------------------------------
(* Helpers *)

Min(a, b) == IF a <= b THEN a ELSE b
Max(a, b) == IF a >= b THEN a ELSE b
Range(s) == {s[i] : i \in 1..Len(s)}

Msg(address, value) == [address |-> address, value |-> value]

\* f"/1/volume{f}"
VolumeAddress(f) == "/1/volume" \o ToString(f)

\* [f"/1/volume{f}" for f in self.faders]
VolumeAddresses(fs) == [i \in 1..Len(fs) |-> VolumeAddress(fs[i])]

\* mutant: the list is taken as given, empty or not
FadersAsGiven(fs) == fs

\* faders if faders else [1, 2, 3, 4, 5, 6]
FadersOrDefault(fs) == IF fs # <<>> THEN fs ELSE DEFAULT_FADERS

\* mutant: the lower bound forgotten
ClampUpperOnly(value) == Min(MAX_VOLUME, value)

\* max(self.MIN_VOLUME, min(self.MAX_VOLUME, value))
Clamp(value) == Max(MIN_VOLUME, Min(MAX_VOLUME, value))

\* OSC arguments as python-osc hands them to the handler: a float ("f", in
\* units of 1/10000), an int ("i", a whole number) or a str ("s").
FloatArg(v) == [type |-> "f", val |-> v]
IntArg(n) == [type |-> "i", val |-> n]
StrArg(s) == [type |-> "s", val |-> s]

\* float(x) succeeds: on a float, on an int, not on a non-numeric string
FloatOk(arg) == arg.type \in {"f", "i"}

\* float(x): a float is itself; the int n is n * 1.0
ToFloat(arg) == IF arg.type = "i" THEN arg.val * MAX_VOLUME ELSE arg.val

-----------------------------------------------------------------------------
(* Inputs *)

\* --step and --faders as main() hands them to the constructor (an empty
\* list stands for faders=None), and whether the listener thread could bind
\* receive_port
Configs ==
    { [step |-> DEFAULT_STEP, faders |-> <<1, 2>>, bound |-> TRUE],
      [step |-> 1000, faders |-> <<>>, bound |-> TRUE],
      [step |-> 2500, faders |-> <<1, 1>>, bound |-> TRUE],
      [step |-> 2500, faders |-> <<3>>, bound |-> FALSE] }

SetVolumeInputs ==
    { MIN_VOLUME - Overshoot, MIN_VOLUME, 3300, MAX_VOLUME, MAX_VOLUME + Overshoot }

FaderFeedbackAddresses == { VolumeAddress(f) : f \in 1..MaxFeedbackFader } \cup { VolumeAddress(9) }

OtherFeedbackAddresses == { BUS_OUTPUT, MASTER_VOLUME, MASTER_MUTE, MAIN_DIM }

FeedbackArgs ==
    { <<>>,
      <<FloatArg(3300)>>,
      <<FloatArg(MIN_VOLUME - Overshoot)>>,
      <<FloatArg(MAX_VOLUME + Overshoot)>>,
      <<IntArg(1)>>,
      <<StrArg("abc")>>,
      <<FloatArg(1000), FloatArg(9000)>> }

\* the messages the listener may receive, as <<address, args>>
FeedbackMessages ==
    (FaderFeedbackAddresses \X FeedbackArgs)
        \cup (OtherFeedbackAddresses \X { <<>>, <<FloatArg(3300)>>, <<IntArg(1)>> })

-----------------------------------------------------------------------------
(* The send path *)

\* mutant: nothing is sent when the listener could not bind
CallsIfListening(msgs, k) ==
    IF ~listening THEN <<>> ELSE IF k = 0 THEN msgs ELSE SubSeq(msgs, 1, k)

\* The send_message calls an operation makes out of the calls msgs it would
\* make in order, when call number k fails with OSError (k = 0: none fails):
\* the exception leaves the operation, the calls after it are never made.
Calls(msgs, k) == IF k = 0 THEN msgs ELSE SubSeq(msgs, 1, k)

\* set_volume: bus select, every fader address, then the master volume
VolumeMessages(value) ==
    <<Msg(BUS_OUTPUT, BUS_SELECT)>>
        \o [i \in 1..Len(volume_addresses) |-> Msg(volume_addresses[i], value)]
        \o <<Msg(MASTER_VOLUME, value)>>

\* mutant: the state before the flip is sent
MutePayloadStale(m) == IF m THEN MUTE_OFF ELSE MUTE_ON

\* 1.0 if self.is_muted else 0.0
MutePayload(m) == IF m THEN MUTE_ON ELSE MUTE_OFF

\* mutant: muting also pulls the master volume down
MuteMessagesWithMaster(m) ==
    <<Msg(MASTER_MUTE, MutePayload(m)), Msg(MASTER_VOLUME, MIN_VOLUME)>>

MuteMessages(m) == <<Msg(MASTER_MUTE, MutePayload(m))>>

-----------------------------------------------------------------------------
(* Bookkeeping of the last operation *)

Invoke(op) ==
    /\ lastOp' = op
    /\ repeated' = (lastOp = op)
    /\ mutedBefore' = is_muted

-----------------------------------------------------------------------------
(* Construction *)

\* no level stored by the handler yet
NoFeedback == [set |-> FALSE, value |-> 0, stage |-> "idle"]

\* no message composed, no datagram decoded
NoMessage == [address |-> <<>>, args |-> <<>>]
NotDecoded == [status |-> "none", address |-> <<>>, args |-> <<>>]

Init ==
    /\ message = NoMessage
    /\ wire = <<>>
    /\ decoded = NotDecoded
    /\ cmd_pc = "idle"
    /\ cmd_value = 0
    /\ fb_since = NoFeedback
    /\ \E c \in Configs :
        /\ step = c.step
        /\ faders_arg = c.faders
        /\ faders = FadersOrDefault(c.faders)
        /\ volume_addresses = VolumeAddresses(FadersOrDefault(c.faders))
        /\ listening = c.bound
        /\ current_volume = INITIAL_VOLUME
        /\ is_muted = FALSE
        /\ running = TRUE
        /\ received_feedback = FALSE
        /\ pc = "polling"
        /\ notified = 0
        /\ sent = <<Msg(BUS_OUTPUT, BUS_SELECT)>>
        /\ raised = FALSE
        /\ lastOp = "init"
        /\ repeated = FALSE
        /\ mutedBefore = FALSE

-----------------------------------------------------------------------------
(* Operations of the controller *)

\* set_volume(value), send_message call number k failing (0: none)
set_volume(value, k) ==
    /\ current_volume' = Clamp(value)
    /\ sent' = Calls(VolumeMessages(Clamp(value)), k)
    /\ raised' = (k # 0)
    /\ UNCHANGED <<codec, race, config, is_muted, running, received_feedback, pc, notified>>

SetVolume(v) ==
    /\ pc = "polling"
    /\ \E k \in 0..(Len(volume_addresses) + 2) : set_volume(v, k)
    /\ Invoke("set_volume")

volume_up ==
    /\ pc = "polling"
    /\ \E k \in 0..(Len(volume_addresses) + 2) : set_volume(current_volume + step, k)
    /\ Invoke("volume_up")

volume_down ==
    /\ pc = "polling"
    /\ \E k \in 0..(Len(volume_addresses) + 2) : set_volume(current_volume - step, k)
    /\ Invoke("volume_down")

\* mutant: the body of volume_up pasted into set_unity_gain
set_unity_gain_pasted ==
    /\ pc = "polling"
    /\ \E k \in 0..(Len(volume_addresses) + 2) : set_volume(current_volume + step, k)
    /\ Invoke("set_unity_gain")

set_unity_gain ==
    /\ pc = "polling"
    /\ \E k \in 0..(Len(volume_addresses) + 2) : set_volume(UNITY_GAIN, k)
    /\ Invoke("set_unity_gain")

toggle_mute ==
    /\ pc = "polling"
    /\ is_muted' = ~is_muted
    /\ \E k \in 0..1 :
        /\ sent' = Calls(MuteMessages(~is_muted), k)
        /\ raised' = (k # 0)
    /\ Invoke("toggle_mute")
    /\ UNCHANGED <<codec, race, config, current_volume, running, received_feedback, pc, notified>>

\* mutant: quitting also mutes the mixer
stop_muting ==
    /\ pc = "polling"
    /\ running' = FALSE
    /\ is_muted' = TRUE
    /\ sent' = MuteMessages(TRUE)
    /\ raised' = FALSE
    /\ Invoke("stop")
    /\ UNCHANGED <<codec, race, config, current_volume, received_feedback, pc, notified>>

stop ==
    /\ pc = "polling"
    /\ running' = FALSE
    /\ sent' = <<>>
    /\ raised' = FALSE
    /\ Invoke("stop")
    /\ UNCHANGED <<codec, race, config, current_volume, is_muted, received_feedback, pc, notified>>

-----------------------------------------------------------------------------
(* The feedback handler, called by the listener thread for every message *)

\* mutant: the master volume address is taken for a fader address
RecognisedOrMaster(address, args) ==
    address \in Range(volume_addresses) \cup {MASTER_VOLUME} /\ args # <<>>

\* address in self.volume_addresses and args
Recognised(address, args) == address \in Range(volume_addresses) /\ args # <<>>

\* mutant: the feedback value is clamped like a local one
FeedbackVolumeClamped(arg) == Clamp(ToFloat(arg))

\* self.current_volume = float(args[0])
FeedbackVolume(arg) == ToFloat(arg)

\* mutant: the flag is flipped by every message
MarkReceivedFlip(rf) == ~rf

\* if not self.received_feedback: self.received_feedback = True
MarkReceived(rf) == IF ~rf THEN TRUE ELSE rf

\* mutant: the line is printed for every message
NotifyEvery(rf, n) == n + 1

\* the "connection verified" line is printed in the same branch
Notify(rf, n) == IF ~rf THEN n + 1 ELSE n

\* mutant: feedback on the mute address reconciles is_muted
handle_osc_feedback_reconciling(address, args) ==
    /\ pc = "polling"
    /\ listening
    /\ received_feedback' = MarkReceived(received_feedback)
    /\ notified' = Notify(received_feedback, notified)
    /\ IF Recognised(address, args)
         THEN IF FloatOk(args[1])
                THEN current_volume' = FeedbackVolume(args[1]) /\ raised' = FALSE
                ELSE current_volume' = current_volume /\ raised' = TRUE
         ELSE current_volume' = current_volume /\ raised' = FALSE
    /\ is_muted' = IF address = MASTER_MUTE /\ args # <<>> /\ FloatOk(args[1])
                      THEN ToFloat(args[1]) # 0
                      ELSE is_muted
    /\ sent' = <<>>
    /\ Invoke("feedback")
    /\ UNCHANGED <<codec, race, config, running, pc>>

\* mutant: the listener thread is not a daemon thread and outlives main()
handle_osc_feedback_outliving(address, args) ==
    /\ listening
    /\ received_feedback' = MarkReceived(received_feedback)
    /\ notified' = Notify(received_feedback, notified)
    /\ IF Recognised(address, args)
         THEN IF FloatOk(args[1])
                THEN current_volume' = FeedbackVolume(args[1]) /\ raised' = FALSE
                ELSE current_volume' = current_volume /\ raised' = TRUE
         ELSE current_volume' = current_volume /\ raised' = FALSE
    /\ sent' = <<>>
    /\ Invoke("feedback")
    /\ UNCHANGED <<codec, race, config, is_muted, running, pc>>

\* The listener is a daemon thread: it handles messages for as long as the
\* process lives, that is, until main() leaves its polling loop and returns.
handle_osc_feedback(address, args) ==
    /\ pc = "polling"
    /\ listening
    /\ received_feedback' = MarkReceived(received_feedback)
    /\ notified' = Notify(received_feedback, notified)
    /\ IF Recognised(address, args)
         THEN IF FloatOk(args[1])
                THEN current_volume' = FeedbackVolume(args[1]) /\ raised' = FALSE
                ELSE current_volume' = current_volume /\ raised' = TRUE
         ELSE current_volume' = current_volume /\ raised' = FALSE
    /\ sent' = <<>>
    /\ Invoke("feedback")
    /\ UNCHANGED <<codec, race, config, is_muted, running, pc>>

OnFeedback == \E m \in FeedbackMessages : handle_osc_feedback(m[1], m[2])

-----------------------------------------------------------------------------
(* main(): the polling loop *)

\* while controller.running: time.sleep(0.1)
MainLoopExit ==
    /\ pc = "polling"
    /\ ~running
    /\ pc' = "exited"
    /\ UNCHANGED <<codec, race, config, state, notified, trace>>

-----------------------------------------------------------------------------

Next ==
    \/ \E v \in SetVolumeInputs : SetVolume(v)
    \/ volume_up
    \/ volume_down
    \/ set_unity_gain
    \/ toggle_mute
    \/ stop
    \/ OnFeedback
    \/ MainLoopExit

Spec == Init /\ [][Next]_vars

\* The main thread is scheduled: the polling loop tests controller.running
\* every 0.1 s, so the exit is taken once the flag is down.
SpecFair == Spec /\ WF_vars(MainLoopExit)

-----------------------------------------------------------------------------
(* The hotkey thread and the listener thread, statement by statement.       *)
(* keyboard runs the hotkey callbacks in its own thread, one at a time; the  *)
(* listener thread runs the handler.  No lock is taken anywhere, so the      *)
(* handler may run between any two statements of a volume change.            *)

\* RaceInputs: the values set_volume is called with directly
RaceInputs == { MIN_VOLUME - Overshoot, 3300, MAX_VOLUME + Overshoot }

\* the feedback messages of this specification
RaceMessages ==
    { <<VolumeAddress(1), <<FloatArg(3300)>>>>,
      <<VolumeAddress(1), <<FloatArg(MAX_VOLUME + Overshoot)>>>>,
      <<VolumeAddress(2), <<IntArg(1)>>>>,
      <<VolumeAddress(2), <<StrArg("abc")>>>>,
      <<VolumeAddress(9), <<FloatArg(1000)>>>>,
      <<MASTER_VOLUME, <<FloatArg(1000)>>>>,
      <<VolumeAddress(1), <<>>>> }

\* A volume change is invoked: the caller evaluates the argument (volume_up
\* and volume_down read self.current_volume here) and enters set_volume.
Call(op, value) ==
    /\ pc = "polling"
    /\ cmd_pc = "idle"
    /\ cmd_pc' = "called"
    /\ cmd_value' = value
    /\ fb_since' = NoFeedback
    /\ Invoke(op)
    /\ UNCHANGED <<codec, config, state, pc, notified, sent, raised>>

CallSetVolume == \E v \in RaceInputs : Call("set_volume", v)
CallVolumeUp == Call("volume_up", current_volume + step)
CallVolumeDown == Call("volume_down", current_volume - step)
CallSetUnityGain == Call("set_unity_gain", UNITY_GAIN)

\* value = max(MIN_VOLUME, min(MAX_VOLUME, value)); self.current_volume = value
Assign ==
    /\ cmd_pc = "called"
    /\ cmd_pc' = "assigned"
    /\ current_volume' = Clamp(cmd_value)
    /\ UNCHANGED <<codec, config, is_muted, running, received_feedback, pc, notified,
                   trace, cmd_value, fb_since>>

\* the send_message calls of set_volume, carrying the local value
Send ==
    /\ cmd_pc = "assigned"
    /\ cmd_pc' = "idle"
    /\ \E k \in 0..(Len(volume_addresses) + 2) :
        /\ sent' = Calls(VolumeMessages(Clamp(cmd_value)), k)
        /\ raised' = (k # 0)
    /\ UNCHANGED <<codec, config, state, pc, notified, lastOp, repeated, mutedBefore,
                   cmd_value, fb_since>>

\* the handler, run by the listener thread at any point of a volume change
Feedback(address, args) ==
    /\ pc = "polling"
    /\ listening
    /\ received_feedback' = MarkReceived(received_feedback)
    /\ notified' = Notify(received_feedback, notified)
    /\ IF Recognised(address, args) /\ FloatOk(args[1])
         THEN /\ current_volume' = FeedbackVolume(args[1])
              /\ fb_since' = [set |-> TRUE, value |-> FeedbackVolume(args[1]),
                              stage |-> cmd_pc]
         ELSE UNCHANGED <<current_volume, fb_since>>
    /\ UNCHANGED <<codec, config, is_muted, running, pc, trace, cmd_pc, cmd_value>>

RaceFeedback == \E m \in RaceMessages : Feedback(m[1], m[2])

NextRace ==
    \/ CallSetVolume
    \/ CallVolumeUp
    \/ CallVolumeDown
    \/ CallSetUnityGain
    \/ Assign
    \/ Send
    \/ RaceFeedback

\* faders 1 and 2, the default step, the listener bound
InitRace == Init /\ faders_arg = <<1, 2>>

SpecRace == InitRace /\ [][NextRace]_vars

-----------------------------------------------------------------------------
(* The message codec (OSC 1.0), as section 4.1 of the specification has it. *)
(* The controller reaches it through client.send_message and the            *)
(* dispatcher of python-osc; the one datagram written out in the sources is  *)
(* the /ping packet of test_connectivity.py.                                 *)
(* A string is the sequence of its character codes, a datagram a sequence    *)
(* of bytes, a 32-bit float its sign, exponent and mantissa fields.          *)

NUL == 0
TAG_MARKER == 44            \* ","

\* b'/ping\x00\x00\x00,\x00\x00\x00'
PING_PACKET == <<47, 112, 105, 110, 103, 0, 0, 0, 44, 0, 0, 0>>

PING == <<47, 112, 105, 110, 103>>                                 \* "/ping"
MAIN_DIM_CHARS == <<47, 49, 47, 109, 97, 105, 110, 68, 105, 109>>  \* "/1/mainDim"
MAIN_MUTE_CHARS == <<47, 49, 47, 109, 97, 105, 110, 77, 117, 116, 101>>
BUS_OUTPUT_CHARS == <<47, 49, 47, 98, 117, 115, 79, 117, 116, 112, 117, 116>>

Float32Arg(sign, exp, mant) ==
    [type |-> "f", val |-> [sign |-> sign, exp |-> exp, mant |-> mant]]
Int32Arg(n) == [type |-> "i", val |-> n]
StringArg(chars) == [type |-> "s", val |-> chars]

ONE == Float32Arg(0, 127, 0)                    \* 1.0
HALF == Float32Arg(0, 126, 0)                   \* 0.5
MINUS_HALF == Float32Arg(1, 126, 0)             \* -0.5
UNITY_32 == Float32Arg(0, 126, 3685954)         \* 0.7197 rounded to 32 bits
LARGEST_32 == Float32Arg(0, 254, 8388607)       \* the largest finite float

CodecAddresses == { PING, MAIN_DIM_CHARS, MAIN_MUTE_CHARS, BUS_OUTPUT_CHARS }

CodecArguments ==
    { <<>>,
      <<ONE>>,
      <<HALF>>,
      <<MINUS_HALF>>,
      <<UNITY_32>>,
      <<LARGEST_32>>,
      <<Int32Arg(1)>>,
      <<Int32Arg(-1)>>,
      <<Int32Arg(2147483647)>>,
      <<Int32Arg(-2147483647)>>,
      <<StringArg(<<>>)>>,
      <<StringArg(<<97, 98, 99>>)>>,
      <<StringArg(<<97, 98, 99, 100>>)>>,
      <<ONE, Int32Arg(70000), StringArg(<<97, 98, 99>>)>>,
      <<StringArg(<<97, 98, 99, 100>>), HALF>> }

CodecMessages ==
    { [address |-> a, args |-> g] : a \in CodecAddresses, g \in CodecArguments }

\* mutant: padded to a 4-byte boundary, but no NUL when already on one
PadToBoundary(bytes) ==
    bytes \o [i \in 1..((4 - (Len(bytes) % 4)) % 4) |-> NUL]

\* NUL-terminated and padded with NUL bytes to the next 4-byte boundary
Pad(bytes) ==
    bytes \o [i \in 1..(4 - (Len(bytes) % 4)) |-> NUL]

TypeTag(arg) ==
    CASE arg.type = "f" -> 102
      [] arg.type = "i" -> 105
      [] arg.type = "s" -> 115

\* 4 bytes, big-endian: sign bit, 8 exponent bits, 23 mantissa bits
EncodeFloat(f) ==
    << f.sign * 128 + f.exp \div 2,
       (f.exp % 2) * 128 + f.mant \div 65536,
       (f.mant \div 256) % 256,
       f.mant % 256 >>

\* 4 bytes, big-endian, two's complement
EncodeInt(n) ==
    LET m == IF n >= 0 THEN n ELSE (n + 1073741824) + 1073741824
        top == IF n >= 0 THEN 0 ELSE 128
    IN << top + m \div 16777216, (m \div 65536) % 256, (m \div 256) % 256, m % 256 >>

EncodeArg(arg) ==
    CASE arg.type = "f" -> EncodeFloat(arg.val)
      [] arg.type = "i" -> EncodeInt(arg.val)
      [] arg.type = "s" -> Pad(arg.val)

RECURSIVE Flatten(_)
Flatten(seqs) == IF seqs = <<>> THEN <<>> ELSE Head(seqs) \o Flatten(Tail(seqs))

Encode(address, args) ==
    Pad(address)
        \o Pad(<<TAG_MARKER>> \o [i \in 1..Len(args) |-> TypeTag(args[i])])
        \o Flatten([i \in 1..Len(args) |-> EncodeArg(args[i])])

Malformed == [status |-> "malformed", address |-> <<>>, args |-> <<>>]

\* the position of the first NUL at or after p, 0 when there is none
NulFrom(bytes, p) ==
    LET S == { i \in p..Len(bytes) : bytes[i] = NUL }
    IN IF S = {} THEN 0 ELSE CHOOSE i \in S : \A j \in S : i <= j

\* the string at p and the position after its padding
ReadString(bytes, p) ==
    LET z == NulFrom(bytes, p)
        next == p + 4 * ((z - p) \div 4 + 1)
    IN IF z = 0 \/ next > Len(bytes) + 1
         THEN [ok |-> FALSE, str |-> <<>>, next |-> p]
         ELSE [ok |-> TRUE, str |-> SubSeq(bytes, p, z - 1), next |-> next]

DecodeFloat(b) ==
    [sign |-> b[1] \div 128,
     exp |-> (b[1] % 128) * 2 + b[2] \div 128,
     mant |-> (b[2] % 128) * 65536 + b[3] * 256 + b[4]]

DecodeInt(b) ==
    LET low == (b[1] % 128) * 16777216 + b[2] * 65536 + b[3] * 256 + b[4]
    IN IF b[1] >= 128 THEN (low - 1073741824) - 1073741824 ELSE low

\* the arguments for the tags from number i on, read from position p
RECURSIVE ReadArgs(_, _, _, _)
ReadArgs(bytes, tags, i, p) ==
    IF i > Len(tags) THEN [ok |-> TRUE, args |-> <<>>]
    ELSE IF tags[i] \in {102, 105}
      THEN IF p + 3 > Len(bytes) THEN [ok |-> FALSE, args |-> <<>>]
           ELSE LET word == SubSeq(bytes, p, p + 3)
                    rest == ReadArgs(bytes, tags, i + 1, p + 4)
                    arg == IF tags[i] = 102
                             THEN [type |-> "f", val |-> DecodeFloat(word)]
                             ELSE [type |-> "i", val |-> DecodeInt(word)]
                IN [ok |-> rest.ok, args |-> <<arg>> \o rest.args]
    ELSE IF tags[i] = 115
      THEN LET str == ReadString(bytes, p)
           IN IF ~str.ok THEN [ok |-> FALSE, args |-> <<>>]
              ELSE LET rest == ReadArgs(bytes, tags, i + 1, str.next)
                   IN [ok |-> rest.ok,
                       args |-> <<[type |-> "s", val |-> str.str]>> \o rest.args]
    ELSE [ok |-> FALSE, args |-> <<>>]

Decode(bytes) ==
    LET address == ReadString(bytes, 1)
    IN IF ~address.ok THEN Malformed
       ELSE LET tags == ReadString(bytes, address.next)
            IN IF ~tags.ok \/ tags.str = <<>> THEN Malformed
               ELSE IF Head(tags.str) # TAG_MARKER THEN Malformed
               ELSE LET read == ReadArgs(bytes, Tail(tags.str), 1, tags.next)
                    IN IF ~read.ok THEN Malformed
                       ELSE [status |-> "ok", address |-> address.str,
                             args |-> read.args]

\* client.send_message(address, value): a message is handed to the codec
Compose(m) ==
    /\ message = NoMessage
    /\ message' = m
    /\ UNCHANGED <<config, state, pc, notified, trace, race, wire, decoded>>

ComposeMessage == \E m \in CodecMessages : Compose(m)

EncodeMessage ==
    /\ message # NoMessage
    /\ wire = <<>>
    /\ wire' = Encode(message.address, message.args)
    /\ UNCHANGED <<config, state, pc, notified, trace, race, message, decoded>>

DecodeDatagram ==
    /\ wire # <<>>
    /\ decoded.status = "none"
    /\ decoded' = Decode(wire)
    /\ UNCHANGED <<config, state, pc, notified, trace, race, message, wire>>

NextCodec ==
    \/ ComposeMessage
    \/ EncodeMessage
    \/ DecodeDatagram

SpecCodec == Init /\ [][NextCodec]_vars

-----------------------------------------------------------------------------
(* Shorthands for the properties *)

VolumeOps == {"set_volume", "volume_up", "volume_down", "set_unity_gain"}

InRange(x) == MIN_VOLUME <= x /\ x <= MAX_VOLUME

\* the controller state of the data model
ControllerState == <<current_volume, is_muted, received_feedback, running>>

-----------------------------------------------------------------------------
(* C1 *)

\* C1: in every reachable state current_volume lies in [MIN_VOLUME,
\* MAX_VOLUME], whatever operations and feedback messages came before.
\* Violated: a feedback message for a controlled fader stores its argument
\* unclamped.
C1_VolumeAlwaysInRange == InRange(current_volume)

\* What does hold: only the feedback handler takes current_volume out of
\* range; every command operation leaves it in range.
C1_CommandsLeaveVolumeInRange == lastOp \in VolumeOps => InRange(current_volume)

-----------------------------------------------------------------------------
(* C2 *)

\* min(1, max(0, v)), written out
Clamped(v) == IF v < MIN_VOLUME THEN MIN_VOLUME ELSE IF v > MAX_VOLUME THEN MAX_VOLUME ELSE v

\* the calls in s to a fader address or to the master volume address
LevelCalls(s) ==
    { i \in 1..Len(s) : s[i].address \in Range(volume_addresses) \cup {MASTER_VOLUME} }

\* C2: a step set_volume(v), for v below, inside or above the range, leaves
\* current_volume = min(1, max(0, v)); every call it makes to a fader address
\* or to the master volume address carries that value; and when it runs to
\* completion every fader address and the master volume address got a call.
C2_SetVolumeClamps ==
    [][ lastOp' = "set_volume" =>
          \A v \in SetVolumeInputs :
            SetVolume(v) =>
              /\ current_volume' = Clamped(v)
              /\ \A i \in LevelCalls(sent') : sent'[i].value = Clamped(v)
              /\ ~raised' =>
                   { sent'[i].address : i \in LevelCalls(sent') }
                       = Range(volume_addresses) \cup {MASTER_VOLUME}
      ]_vars

\* set_volume ran to completion and left the volume at the upper bound, as
\* set_volume(1.5) does
C2_Witness ==
    /\ lastOp = "set_volume"
    /\ ~raised
    /\ current_volume = MAX_VOLUME
    /\ LevelCalls(sent) # {}

-----------------------------------------------------------------------------
(* C3 *)

\* C3: from every reachable state with level p, volume_up raises
\* current_volume by exactly min(step, 1 - p) and volume_down lowers it by
\* exactly min(step, p), also when p was stored by the feedback handler.
\* Violated: after feedback stored a level below 0, volume_up jumps to 0;
\* after feedback stored a level above 1, volume_down jumps to 1.
C3_StepIsExact ==
    [][ /\ volume_up =>
             current_volume' - current_volume = Min(step, MAX_VOLUME - current_volume)
        /\ volume_down =>
             current_volume - current_volume' = Min(step, current_volume - MIN_VOLUME)
      ]_vars

\* What does hold: the step is exact from every level inside the range.
C3_StepIsExactInRange ==
    [][ InRange(current_volume) =>
          /\ volume_up =>
               current_volume' - current_volume = Min(step, MAX_VOLUME - current_volume)
          /\ volume_down =>
               current_volume - current_volume' = Min(step, current_volume - MIN_VOLUME)
      ]_vars

-----------------------------------------------------------------------------
(* C4 *)

\* bus select, one fader message per entry of faders in order, master volume
ExpectedVolumeCalls(value) ==
    [ i \in 1..(Len(faders) + 2) |->
        IF i = 1 THEN Msg(BUS_OUTPUT, BUS_SELECT)
        ELSE IF i = Len(faders) + 2 THEN Msg(MASTER_VOLUME, value)
        ELSE Msg(VolumeAddress(faders[i - 1]), value) ]

\* C4: every volume change (set_volume, volume_up, volume_down,
\* set_unity_gain) makes exactly len(faders) + 2 send calls and no others:
\* the bus select first, then one per fader, then the master volume.
\* Violated: a send call that fails raises out of set_volume and the calls
\* after it are never made.
C4_VolumeChangeSendsAll ==
    lastOp \in VolumeOps => sent = ExpectedVolumeCalls(current_volume)

\* What does hold: a volume change in which no send call fails makes exactly
\* those calls, in that order, whatever was sent before.
C4_VolumeChangeSendsAllUnlessSendFails ==
    (lastOp \in VolumeOps /\ ~raised) => sent = ExpectedVolumeCalls(current_volume)

-----------------------------------------------------------------------------
(* C5, C6 *)

\* the addresses of the faders in faders
FaderAddresses == { VolumeAddress(faders[i]) : i \in 1..Len(faders) }

\* a float or an int argument, and the number it stands for (an int n is n
\* times full scale)
Numeric(arg) == arg.type \in {"f", "i"}
NumberOf(arg) == IF arg.type = "i" THEN arg.val * MAX_VOLUME ELSE arg.val

\* C5: after the handler ran on a message for a fader in faders whose first
\* argument is the number x, current_volume = x, whatever it was before and
\* whatever x is.
C5_FeedbackPrecedence ==
    [][ lastOp' = "feedback" =>
          LET controlled == FaderAddresses IN
          \A m \in FeedbackMessages :
            ( /\ m[1] \in controlled
              /\ m[2] # <<>>
              /\ Numeric(m[2][1]) )
            => \/ current_volume' = NumberOf(m[2][1])
               \/ ~handle_osc_feedback(m[1], m[2])
      ]_vars

\* feedback for a controlled fader overwrote the level after a local mute and
\* with a value no local operation can store
C5_Witness ==
    /\ lastOp = "feedback"
    /\ is_muted
    /\ current_volume = MAX_VOLUME + Overshoot

\* C6: the handler run on a message whose address is not the address of a
\* fader in faders (another fader, master volume, mute, dim, bus select), or
\* on a message without arguments, leaves current_volume alone and does not
\* raise.
C6_FeedbackFiltering ==
    [][ lastOp' = "feedback" =>
          \/ (current_volume' = current_volume /\ ~raised')
          \/ LET controlled == FaderAddresses IN
             \A m \in FeedbackMessages :
               (m[1] \notin controlled \/ m[2] = <<>>)
               => ~handle_osc_feedback(m[1], m[2])
      ]_vars

\* with faders [1, 2] a feedback message was handled and the level is still
\* one that only set_unity_gain stores
C6_Witness ==
    /\ lastOp = "feedback"
    /\ faders = <<1, 2>>
    /\ current_volume = UNITY_GAIN
    /\ ~raised

-----------------------------------------------------------------------------
(* C7 *)

\* C7: toggle_mute flips is_muted and makes exactly one send call, to the
\* mute address, carrying 1.0 when now muted and 0.0 when not; a second
\* toggle_mute right after it restores the value is_muted had before the
\* first and sends the opposite payload.
C7_ToggleMute ==
    [][ toggle_mute =>
          /\ is_muted' = ~is_muted
          /\ sent' = <<Msg(MASTER_MUTE, IF is_muted' THEN MUTE_ON ELSE MUTE_OFF)>>
          /\ lastOp = "toggle_mute" =>
               /\ is_muted' = mutedBefore
               /\ Len(sent) = 1
               /\ sent[1].address = MASTER_MUTE
               /\ sent'[1].value # sent[1].value
      ]_vars

\* two toggle_mute in a row, back at unmuted
C7_Witness ==
    /\ lastOp = "toggle_mute"
    /\ repeated
    /\ ~is_muted
    /\ sent = <<Msg(MASTER_MUTE, MUTE_OFF)>>

-----------------------------------------------------------------------------
(* C8 *)

\* C8: set_unity_gain leaves current_volume = UNITY_GAIN and is_muted,
\* received_feedback and running as they were; invoked again right after, it
\* changes nothing of the controller state.
C8_UnityGainIdempotent ==
    [][ set_unity_gain =>
          /\ current_volume' = UNITY_GAIN
          /\ UNCHANGED <<is_muted, received_feedback, running>>
          /\ lastOp = "set_unity_gain" => ControllerState' = ControllerState
      ]_vars

\* set_unity_gain twice in a row
C8_Witness ==
    /\ lastOp = "set_unity_gain"
    /\ repeated
    /\ current_volume = UNITY_GAIN

-----------------------------------------------------------------------------
(* C9 *)

\* C9: received_feedback starts false, is true after the handler ran on any
\* message, recognised or not, and no step takes it from true to false.
C9_FeedbackReceivedMonotonic ==
    /\ received_feedback = FALSE
    /\ [][ /\ received_feedback => received_feedback'
           /\ (lastOp' = "feedback" /\ OnFeedback) => received_feedback'
         ]_vars

\* feedback was handled, then stop and toggle_mute: the flag is still set
C9_Witness ==
    /\ received_feedback
    /\ notified = 1
    /\ ~running
    /\ lastOp = "toggle_mute"
    /\ current_volume = INITIAL_VOLUME

-----------------------------------------------------------------------------
(* C10 *)

IsPrefix(s, t) == Len(s) <= Len(t) /\ \A i \in 1..Len(s) : s[i] = t[i]

\* the send calls a command operation has to make, from the state it leaves
CommandCalls ==
    IF lastOp = "toggle_mute"
      THEN <<Msg(MASTER_MUTE, IF is_muted THEN MUTE_ON ELSE MUTE_OFF)>>
      ELSE ExpectedVolumeCalls(current_volume)

\* C10: the "connection verified" line has been printed once if feedback was
\* ever handled and never otherwise, so never twice; and the send calls of a
\* volume change or of toggle_mute are the same with received_feedback true
\* and false: all of them unless one fails, and then those up to the failed
\* one.
C10_NotifiedOnceAndSendingNotGated ==
    /\ notified = IF received_feedback THEN 1 ELSE 0
    /\ lastOp \in VolumeOps \cup {"toggle_mute"} =>
         /\ sent # <<>>
         /\ IsPrefix(sent, CommandCalls)
         /\ ~raised => sent = CommandCalls

\* a second feedback message in a row was handled, the line printed once
C10_Witness ==
    /\ lastOp = "feedback"
    /\ repeated
    /\ notified = 1

-----------------------------------------------------------------------------
(* C11 *)

CommandOps == VolumeOps \cup {"toggle_mute"}

\* C11: when the listener thread could not bind receive_port, the controller
\* is constructed all the same, received_feedback is false in every later
\* state (the handler never runs, the line is never printed), and every
\* volume change and toggle_mute still makes its send calls.
C11_BindFailureIsNotFatal ==
    ~listening =>
        /\ received_feedback = FALSE
        /\ notified = 0
        /\ lastOp # "feedback"
        /\ lastOp \in CommandOps =>
             /\ sent # <<>>
             /\ IsPrefix(sent, CommandCalls)
             /\ ~raised => sent = CommandCalls

\* without a listener, a volume change and then toggle_mute went out
C11_Witness ==
    /\ ~listening
    /\ pc = "polling"
    /\ lastOp = "toggle_mute"
    /\ ~raised
    /\ sent = <<Msg(MASTER_MUTE, MUTE_ON)>>
    /\ current_volume = UNITY_GAIN

-----------------------------------------------------------------------------
(* C14 *)

\* C14: a send call that fails never makes a command operation (a volume
\* change or toggle_mute) end by raising; the failure comes back to the
\* caller as a value.
\* Violated: set_volume and toggle_mute call send_message bare, so the OSError
\* of a failed call leaves the operation as an exception.
C14_SendFailureIsReported == lastOp \in CommandOps => ~raised

\* What does hold: no call is made twice (the calls made are a prefix of the
\* calls to make), and the operations stay enabled after one that raised.
C14_NoRetry == lastOp \in CommandOps => IsPrefix(sent, CommandCalls)

-----------------------------------------------------------------------------
(* C18 *)

\* every address a message can carry
AllAddresses ==
    { VolumeAddress(f) : f \in 1..9 } \cup OtherFeedbackAddresses

\* the addresses the handler takes a level from
RecognisedAddresses == { a \in AllAddresses : Recognised(a, <<FloatArg(3300)>>) }

\* the fader addresses set_volume sends to: all calls but the bus select and
\* the master volume
BroadcastAddresses ==
    LET msgs == VolumeMessages(MIN_VOLUME)
    IN { msgs[i].address : i \in 2..(Len(msgs) - 1) }

\* C18: in every reachable state faders is not empty; the addresses the
\* handler recognises are exactly the fader addresses set_volume sends to,
\* one per entry of faders; and no step changes faders or volume_addresses.
C18_FaderSetFixed ==
    /\ [] /\ faders # <<>>
          /\ Len(volume_addresses) = Len(faders)
          /\ LET controlled == FaderAddresses IN
               /\ RecognisedAddresses = controlled
               /\ BroadcastAddresses = controlled
    /\ [][ faders' = faders /\ volume_addresses' = volume_addresses ]_vars

\* constructed without faders: the six default faders are driven, and
\* feedback for one of them was taken
C18_Witness ==
    /\ faders = DEFAULT_FADERS
    /\ lastOp = "feedback"
    /\ current_volume = 3300
    /\ ~running

-----------------------------------------------------------------------------
(* C19 *)

VolumeChange ==
    \/ \E v \in SetVolumeInputs : SetVolume(v)
    \/ volume_up
    \/ volume_down
    \/ set_unity_gain

\* C19: toggle_mute leaves current_volume alone and calls no address but the
\* mute address; a volume change leaves is_muted alone, calls no mute
\* address, and makes its calls whether is_muted is true or false.
C19_VolumeAndMuteIndependent ==
    [][ /\ lastOp' = "toggle_mute" =>
             \/ /\ current_volume' = current_volume
                /\ \A i \in 1..Len(sent') : sent'[i].address = MASTER_MUTE
             \/ ~toggle_mute
        /\ lastOp' \in VolumeOps =>
             \/ /\ is_muted' = is_muted
                /\ \A i \in 1..Len(sent') : sent'[i].address # MASTER_MUTE
                /\ sent' # <<>>
                /\ LET expected == ExpectedVolumeCalls(current_volume')
                   IN IF raised' THEN IsPrefix(sent', expected) ELSE sent' = expected
             \/ ~VolumeChange
      ]_vars

\* muted, and a volume_up went out in full
C19_Witness ==
    /\ is_muted
    /\ mutedBefore
    /\ lastOp = "volume_up"
    /\ ~raised
    /\ sent = ExpectedVolumeCalls(current_volume)

-----------------------------------------------------------------------------
(* C20 *)

\* C20: the handler, run on any message, makes no send call and leaves
\* is_muted and running as they were, also on a message for the mute
\* address.
C20_FeedbackIsPassive ==
    [][ lastOp' = "feedback" =>
          ( OnFeedback =>
              /\ sent' = <<>>
              /\ is_muted' = is_muted
              /\ running' = running )
      ]_vars

\* muted locally, then a feedback message that was not for a driven fader
C20_Witness ==
    /\ lastOp = "feedback"
    /\ is_muted
    /\ running
    /\ received_feedback
    /\ current_volume = INITIAL_VOLUME
    /\ sent = <<>>

-----------------------------------------------------------------------------
(* C15 *)

\* C15: a controller is never constructed from an empty fader list: no state
\* after construction (the client socket opened, the listener started, the
\* bus select sent) belongs to a controller that was given no faders.
\* Violated: __init__ takes the six default faders in place of an empty list
\* and goes on to open the sockets and send the bus select.
C15_EmptyFaderSetIsFatal == faders_arg # <<>>

\* What does hold: a controller given no faders drives the default faders.
C15_EmptyFaderSetFallsBack == faders_arg = <<>> => faders = DEFAULT_FADERS

-----------------------------------------------------------------------------
(* C13 *)

\* C13: once stop has been called, the listener eventually handles no more
\* feedback, and never again after that: the receive loop is over.
C13_ReceiveLoopEnds == ~running ~> [](~ENABLED OnFeedback)

\* stop was called, feedback was still handled after it, then the process
\* ended
C13_Witness ==
    /\ listening
    /\ ~running
    /\ lastOp = "feedback"
    /\ pc = "exited"
    /\ ~ENABLED OnFeedback

-----------------------------------------------------------------------------
(* C17 *)

\* C17: running starts true; stop sets it to false, leaves current_volume,
\* is_muted and received_feedback alone and makes no send call; no step
\* takes running from false to true; and once it is false the polling loop
\* of main() is eventually left.
C17_StopOnlyClearsRunning ==
    /\ running = TRUE
    /\ [][ stop =>
             /\ running' = FALSE
             /\ UNCHANGED <<current_volume, is_muted, received_feedback>>
             /\ sent' = <<>>
         ]_vars
    /\ [][ ~running => ~running' ]_vars
    /\ ~running ~> pc = "exited"

\* muted at unity gain, stop called, the polling loop left
C17_Witness ==
    /\ pc = "exited"
    /\ lastOp = "stop"
    /\ ~running
    /\ is_muted
    /\ current_volume = UNITY_GAIN

-----------------------------------------------------------------------------
(* C12 *)

\* C12: under every interleaving of the listener thread with the hotkey
\* thread, once the hotkey thread is idle again, the level the handler last
\* stored since the last volume change was invoked is current_volume.
\* Violated: no lock orders the two threads; feedback handled after volume_up
\* read the level and before set_volume assigns is overwritten by the
\* assignment.
C12_FeedbackWinsUnderInterleaving ==
    (cmd_pc = "idle" /\ fb_since.set) => current_volume = fb_since.value

\* What does hold: feedback handled after the assignment of the volume
\* change wins.
C12_FeedbackAfterAssignmentWins ==
    (cmd_pc = "idle" /\ fb_since.set /\ fb_since.stage # "called")
        => current_volume = fb_since.value

-----------------------------------------------------------------------------
(* C16 *)

\* the same address and the same arguments, type by type, in the same order
SameMessage(d, m) ==
    /\ d.address = m.address
    /\ Len(d.args) = Len(m.args)
    /\ \A i \in 1..Len(m.args) :
        /\ d.args[i].type = m.args[i].type
        /\ d.args[i].val = m.args[i].val

\* C16: for every address and every sequence of 32-bit float, 32-bit integer
\* and string arguments, decoding the encoded message succeeds and gives the
\* same address and the same arguments in the same order; and the encoding
\* of "/ping" without arguments is the packet test_connectivity.py writes out.
C16_CodecRoundTrip ==
    /\ decoded.status # "none" =>
         /\ decoded.status = "ok"
         /\ SameMessage(decoded, message)
    /\ (wire # <<>> /\ message = [address |-> PING, args |-> <<>>]) =>
         wire = PING_PACKET

\* decode(encode("/1/mainDim", [1.0])) gave "/1/mainDim" and [1.0]
C16_Witness ==
    /\ message = [address |-> MAIN_DIM_CHARS, args |-> <<ONE>>]
    /\ wire = MAIN_DIM_CHARS \o <<0, 0>> \o <<44, 102, 0, 0>> \o <<63, 128, 0, 0>>
    /\ decoded.status = "ok"
    /\ decoded.address = MAIN_DIM_CHARS
    /\ decoded.args = <<ONE>>

====
